---- MODULE Spec2Model ----
(***************************************************************************)
(* A model of the OpenTSDB client: the sub-query token grammar             *)
(* (MetricQueryBuilder.build, RateOptions, Filter), the RequestBuilder     *)
(* mutators with the copying decorator that wraps each of them, parameter  *)
(* assembly, and the Client with its lazily fetched metadata.              *)
(*                                                                         *)
(* Python values are represented as follows.                               *)
(*   - str is a TLA+ string; "+" on str is \o.                             *)
(*   - an attribute that may be None is a sequence of length <= 1:         *)
(*     None is << >>, a value v that is set is <<v>>.                      *)
(*   - a float is an integer number of tenths (5 is 0.5, 950 is 95.0).     *)
(*   - a dict is the sequence of its (key, value) items in insertion order.*)
(*   - a value held in the parameter dict is tagged with its Python type:  *)
(*     <<"str", s>>, <<"int", n>>, <<"bool", b>>, <<"list", seq>>.         *)
(*   - an object with identity (a RequestBuilder, its _parameters dict) is *)
(*     an index into a heap sequence, so that two references to one object *)
(*     are two equal indices.                                              *)
(***************************************************************************)
EXTENDS Integers, Sequences, FiniteSets, TLC

VARIABLES
    builders,   \* heap of RequestBuilder objects: [client, verb, params]
    dicts,      \* heap of _parameters dicts; builders[i].params indexes it
    last,       \* the call made last: operation, receiver, argument, result
    prev,       \* the call made before that one
    pre,        \* the heap as it was right before that call
    req,        \* what build_request() returned or raised when called last
    sq,         \* the object under construction / built: a sub-query, a Filter, a RateOptions
    out,        \* what build() or str() returned or raised for sq
    cache,      \* per Client, the four _server_* attributes
    fetched,    \* per Client, the attributes a GET has been stored into so far
    clast,      \* the Client call made last: operation, client, GETs made, result
    cpre,       \* cache and fetched as they were right before that call
    sent,       \* the requests handed to Session.send so far, each with how send ended
    ran         \* what run() returned or raised when called last

vars == <<builders, dicts, last, prev, pre, req, sq, out, cache, fetched, clast, cpre, sent, ran>>

\* the variables of the request builders, and those of the sub-query
rbvars == <<builders, dicts, last, prev, pre, req>>

sqvars == <<sq, out>>

\* the variables of the Client metadata cache
clvars == <<cache, fetched, clast, cpre>>

\* the variables of the HTTP transport
trvars == <<sent, ran>>

(***************************************************************************)
(* Bounds of the model.                                                    *)
(***************************************************************************)
MaxBuilders == 3
MaxFilters == 3

(***************************************************************************)
(* Python helpers.                                                         *)
(***************************************************************************)
None == << >>

Some(v) == <<v>>

IsNone(x) == x = None

Val(x) == x[1]

\* str(bool)
PyStrBool(b) == IF b THEN "True" ELSE "False"

\* str(float) for a float given in tenths: 5 -> "0.5", 950 -> "95.0"
PyStrFloat(t) == ToString(t \div 10) \o "." \o ToString(t % 10)

RECURSIVE Join(_, _)
\* sep.join(strs)
Join(sep, strs) ==
    IF Len(strs) = 0 THEN ""
    ELSE IF Len(strs) = 1 THEN strs[1]
    ELSE strs[1] \o sep \o Join(sep, Tail(strs))

(***************************************************************************)
(* Filter and RateOptions.                                                 *)
(***************************************************************************)
\* Filter.__init__
Filter(type, tagk, filter, group_by) ==
    [type |-> type, tagk |-> tagk, filter |-> filter, group_by |-> group_by]

\* Filter.__str__ gone wrong: type and tagk have changed places
Filter_str_typeFirst(f) == f.type \o "=" \o f.tagk \o "(" \o f.filter \o ")"

\* Filter.__str__
Filter_str(f) == f.tagk \o "=" \o f.type \o "(" \o f.filter \o ")"

\* RateOptions.__init__
RateOptions(counter, counter_max, reset_value, drop_resets) ==
    [counter |-> counter, counter_max |-> counter_max,
     reset_value |-> reset_value, drop_resets |-> drop_resets]

\* RateOptions.__str__ gone wrong: "if self._x" in place of
\* "if self._x is not None", so that False and 0 are taken for unset
RateOptions_str_truthy(ro) ==
    "{" \o (IF ro.counter = Some(TRUE) THEN "True" ELSE "")
    \o "," \o (IF ~IsNone(ro.counter_max) /\ Val(ro.counter_max) # 0
                THEN ToString(Val(ro.counter_max)) ELSE "")
    \o "," \o (IF ~IsNone(ro.reset_value) /\ Val(ro.reset_value) # 0
                THEN ToString(Val(ro.reset_value)) ELSE "")
    \o "}"

\* RateOptions.__str__ gone wrong: drop_resets is written as a fourth field
RateOptions_str_dropResets(ro) ==
    "{" \o (IF ~IsNone(ro.counter) THEN PyStrBool(Val(ro.counter)) ELSE "")
    \o "," \o (IF ~IsNone(ro.counter_max) THEN ToString(Val(ro.counter_max)) ELSE "")
    \o "," \o (IF ~IsNone(ro.reset_value) THEN ToString(Val(ro.reset_value)) ELSE "")
    \o (IF ~IsNone(ro.drop_resets) THEN "," \o PyStrBool(Val(ro.drop_resets)) ELSE "")
    \o "}"

\* RateOptions.__str__
RateOptions_str(ro) ==
    "{" \o (IF ~IsNone(ro.counter) THEN PyStrBool(Val(ro.counter)) ELSE "")
    \o "," \o (IF ~IsNone(ro.counter_max) THEN ToString(Val(ro.counter_max)) ELSE "")
    \o "," \o (IF ~IsNone(ro.reset_value) THEN ToString(Val(ro.reset_value)) ELSE "")
    \o "}"

(***************************************************************************)
(* QueryBuilder and its two subclasses.                                    *)
(***************************************************************************)
\* QueryBuilder.__init__ (cls is the subclass instantiated)
QueryBuilder(cls, aggregator, metric, rate, rate_options, downsample, filters, explicit_tags, percentiles, rollup_usage) ==
    [cls |-> cls,
     aggregator |-> aggregator,
     metric |-> metric,
     rate |-> rate,
     rate_options |-> rate_options,
     downsample |-> downsample,
     filters |-> IF ~IsNone(filters) THEN Val(filters) ELSE << >>,
     explicit_tags |-> explicit_tags,
     percentiles |-> IF ~IsNone(percentiles) THEN Val(percentiles) ELSE << >>,
     rollup_usage |-> rollup_usage]

\* what a call returned (exc = "") or the exception it raised
Returned(v) == [exc |-> "", ret |-> v]

Raised(e) == [exc |-> e, ret |-> << >>]

\* string = f'{self._aggregator}:'
AggregatorClause(self) ==
    (IF IsNone(self.aggregator) THEN "None" ELSE Val(self.aggregator)) \o ":"

\* RateClause gone wrong: the clause is emitted only for a rate that is true
RateClause_truthy(self) ==
    IF ~IsNone(self.rate) /\ Val(self.rate)
    THEN PyStrBool(Val(self.rate))
         \o (IF ~IsNone(self.rate_options) THEN RateOptions_str(Val(self.rate_options)) ELSE "")
         \o ":"
    ELSE ""

\* [rate[{counter[,<counter_max>[,<reset_value>]]}]:]
RateClause(self) ==
    IF ~IsNone(self.rate)
    THEN PyStrBool(Val(self.rate))
         \o (IF ~IsNone(self.rate_options) THEN RateOptions_str(Val(self.rate_options)) ELSE "")
         \o ":"
    ELSE ""

\* [<down_sampler>:]
DownsampleClause(self) ==
    IF ~IsNone(self.downsample) THEN Val(self.downsample) \o ":" ELSE ""

\* [percentiles\[<p1>, <pn>\]:]
PercentilesClause(self) ==
    IF Len(self.percentiles) > 0
    THEN "percentiles[" \o Join(",", [i \in 1..Len(self.percentiles) |-> PyStrFloat(self.percentiles[i])]) \o "]:"
    ELSE ""

\* ExplicitTagsClause gone wrong: the flag is followed by a colon
ExplicitTagsClause_colon(self) ==
    IF ~IsNone(self.explicit_tags) THEN PyStrBool(Val(self.explicit_tags)) \o ":" ELSE ""

\* [explicit_tags:]
ExplicitTagsClause(self) ==
    IF ~IsNone(self.explicit_tags) THEN PyStrBool(Val(self.explicit_tags)) ELSE ""

\* grouping_filters = [f for f in self._filters if f._group_by is True]
GroupingFilters(self) ==
    SelectSeq(self.filters, LAMBDA f : f.group_by = Some(TRUE))

\* NonGroupingFilters gone wrong: "not f._group_by", which also takes None
NonGroupingFilters_falsy(self) ==
    SelectSeq(self.filters, LAMBDA f : f.group_by # Some(TRUE))

\* non_grouping_filters = [f for f in self._filters if f._group_by is False]
NonGroupingFilters(self) ==
    SelectSeq(self.filters, LAMBDA f : f.group_by = Some(FALSE))

\* if len(fs) > 0: string += '{' + ','.join(str(f) for f in fs) + '}'
FilterBlock(fs) ==
    IF Len(fs) > 0 THEN "{" \o Join(",", [i \in 1..Len(fs) |-> Filter_str(fs[i])]) \o "}" ELSE ""

\* MetricQueryBuilder.build gone wrong: the downsample clause is written
\* before the rate clause
MetricQueryBuilder_build_downsampleFirst(self) ==
    LET s1 == AggregatorClause(self)
        s2 == s1 \o DownsampleClause(self)
        s3 == s2 \o RateClause(self)
        s4 == s3 \o PercentilesClause(self)
        s5 == s4 \o ExplicitTagsClause(self)
    IN  IF IsNone(self.metric)
        THEN Raised("TypeError")
        ELSE LET s6 == s5 \o Val(self.metric)
                 s7 == s6 \o FilterBlock(GroupingFilters(self))
                 s8 == s7 \o FilterBlock(NonGroupingFilters(self))
             IN  Returned(<<"m", s8>>)

\* MetricQueryBuilder.build gone wrong: the non-grouping block is written
\* before the grouping block
MetricQueryBuilder_build_nonGroupingFirst(self) ==
    LET s1 == AggregatorClause(self)
        s2 == s1 \o RateClause(self)
        s3 == s2 \o DownsampleClause(self)
        s4 == s3 \o PercentilesClause(self)
        s5 == s4 \o ExplicitTagsClause(self)
    IN  IF IsNone(self.metric)
        THEN Raised("TypeError")
        ELSE LET s6 == s5 \o Val(self.metric)
                 s7 == s6 \o FilterBlock(NonGroupingFilters(self))
                 s8 == s7 \o FilterBlock(GroupingFilters(self))
             IN  Returned(<<"m", s8>>)

\* MetricQueryBuilder.build
MetricQueryBuilder_build(self) ==
    LET s1 == AggregatorClause(self)
        s2 == s1 \o RateClause(self)
        s3 == s2 \o DownsampleClause(self)
        s4 == s3 \o PercentilesClause(self)
        s5 == s4 \o ExplicitTagsClause(self)
    IN  IF IsNone(self.metric)
        THEN Raised("TypeError")     \* string += None
        ELSE LET s6 == s5 \o Val(self.metric)
                 s7 == s6 \o FilterBlock(GroupingFilters(self))
                 s8 == s7 \o FilterBlock(NonGroupingFilters(self))
             IN  Returned(<<"m", s8>>)

\* QueryBuilder.build, which TSUIDQueryBuilder inherits
QueryBuilder_build(self) == Raised("NotImplementedError")

\* the class attribute TYPE of the class of q
QueryBuilder_TYPE(self) == IF self.cls = "MetricQueryBuilder" THEN "m" ELSE "tsuid"

\* q.build(), dispatched on the class of q
Build(self) ==
    IF self.cls = "MetricQueryBuilder" THEN MetricQueryBuilder_build(self)
    ELSE QueryBuilder_build(self)

(***************************************************************************)
(* Python dict, as the sequence of its items in insertion order.           *)
(***************************************************************************)
\* k in d
HasKey(d, k) == \E i \in 1..Len(d) : d[i][1] = k

\* d[k], for a key that is present
GetItem(d, k) == d[CHOOSE i \in 1..Len(d) : d[i][1] = k][2]

\* SetItem gone wrong: the item is added without looking for the key
SetItem_append(d, k, v) == Append(d, <<k, v>>)

\* SetItem gone wrong: a present key is taken out and put back last
SetItem_moveLast(d, k, v) == Append(SelectSeq(d, LAMBDA item : item[1] # k), <<k, v>>)

\* SetItem gone wrong: the dict is replaced by one holding the item alone
SetItem_reset(d, k, v) == << <<k, v>> >>

\* d[k] = v: a present key keeps its place, a new key goes last
SetItem(d, k, v) ==
    IF HasKey(d, k)
    THEN [i \in 1..Len(d) |-> IF d[i][1] = k THEN <<k, v>> ELSE d[i]]
    ELSE Append(d, <<k, v>>)

\* d.setdefault(k, v)
SetDefault(d, k, v) == IF HasKey(d, k) THEN d ELSE Append(d, <<k, v>>)

(***************************************************************************)
(* Client and the RequestBuilder heap.                                     *)
(***************************************************************************)
Clients == {"client1", "client2"}

\* self._url and self._port of the two clients
Client_url(client) == IF client = "client1" THEN "http://localhost" ELSE "http://tsdb"

Client_port(client) == IF client = "client1" THEN 4242 ELSE 31617

\* self._complete_url = f'{self._url}:{self._port}'
Client_complete_url(client) == Client_url(client) \o ":" \o ToString(Client_port(client))

Endpoint_QUERY == "/api/query"

\* class Verb
Verbs == {"GET", "POST", "DELETE"}

\* the heap as a value: what an operation is given and what it leaves
Heap == [builders |-> builders, dicts |-> dicts]

\* RequestBuilder.__init__: a new builder holding the dict of its keyword
\* arguments, with "queries" defaulted to a new empty list
RequestBuilder_init(h, client, verb, parameters) ==
    [builders |-> Append(h.builders,
                         [client |-> client, verb |-> verb, params |-> Len(h.dicts) + 1]),
     dicts |-> Append(h.dicts, SetDefault(parameters, "queries", <<"list", << >> >>))]

\* self._parameters of builder b in heap h
Params(h, b) == h.dicts[h.builders[b].params]

\* ShallowCopy gone wrong: the copy is made with the verb of a GET builder
ShallowCopy_get(h, self) ==
    [builders |-> Append(h.builders, [h.builders[self] EXCEPT !.verb = "GET"]),
     dicts |-> h.dicts]

\* copy.copy(self): a new object whose attributes are the same references
ShallowCopy(h, self) ==
    [builders |-> Append(h.builders, h.builders[self]), dicts |-> h.dicts]

\* self._parameters[k] = v, on builder self of heap h
SetParameter(h, self, k, v) ==
    [h EXCEPT !.dicts[h.builders[self].params] = SetItem(@, k, v)]

\* self._parameters["queries"].extend(qs), on builder self of heap h
ExtendQueries(h, self, qs) ==
    [h EXCEPT !.dicts[h.builders[self].params] =
        SetItem(@, "queries", <<"list", GetItem(@, "queries")[2] \o qs>>)]

RECURSIVE BuildAll(_)
\* (q.build() for q in v), consumed by params.extend: the pairs, or the
\* exception of the first build() that raises
BuildAll(qs) ==
    IF Len(qs) = 0 THEN Returned(<< >>)
    ELSE LET r == Build(qs[1])
         IN  IF r.exc # "" THEN Raised(r.exc)
             ELSE LET rest == BuildAll(Tail(qs))
                  IN  IF rest.exc # "" THEN rest
                      ELSE Returned(<< <<r.ret[1], <<"str", r.ret[2]>> >> >> \o rest.ret)

RECURSIVE Assemble(_)
\* the loop of RequestBuilder.parameters over the items of dict d
Assemble(d) ==
    IF Len(d) = 0 THEN Returned(<< >>)
    ELSE LET k == d[1][1]
             v == d[1][2]
             head == IF k = "queries" /\ Len(v[2]) > 0
                     THEN BuildAll(v[2])
                     ELSE Returned(<< <<k, v>> >>)
         IN  IF head.exc # "" THEN head
             ELSE LET rest == Assemble(Tail(d))
                  IN  IF rest.exc # "" THEN rest
                      ELSE Returned(head.ret \o rest.ret)

\* RequestBuilder.parameters
RequestBuilder_parameters(h, self) == Assemble(Params(h, self))

\* RequestBuilder.build_request: requests.Request(verb, url, params)
RequestBuilder_build_request(h, self) ==
    LET params == RequestBuilder_parameters(h, self)
    IN  IF params.exc # "" THEN Raised(params.exc)
        ELSE Returned([verb |-> h.builders[self].verb,
                       url |-> Client_complete_url(h.builders[self].client) \o Endpoint_QUERY,
                       params |-> params.ret])

\* no call made yet
NoCall == [op |-> "", recv |-> 0, arg |-> None, result |-> 0, exc |-> ""]

\* the call record of a call that returned builder result
CallRecord(op, recv, arg, result) ==
    [op |-> op, recv |-> recv, arg |-> arg, result |-> result, exc |-> ""]

\* the decorator: _copy(self, ...) copies self, runs the wrapped function
\* on the copy (h2 is the heap it leaves) and returns the copy
builder(op, self, arg, h2) ==
    /\ builders' = h2.builders
    /\ dicts' = h2.dicts
    /\ last' = CallRecord(op, self, arg, Len(h2.builders))
    /\ prev' = last
    /\ pre' = Heap
    /\ UNCHANGED <<req, sqvars, clvars, trvars>>

\* the new object the decorator hands to the wrapped function
Copy(self) == Len(builders) + 1

\* a mutator call is made on an existing builder
CanCall(self) == self \in 1..Len(builders)

RequestBuilder_start(self, v) ==
    /\ CanCall(self)
    /\ builder("start", self, v, SetParameter(ShallowCopy(Heap, self), Copy(self), "start", v))

RequestBuilder_end(self, v) ==
    /\ CanCall(self)
    /\ builder("end", self, v, SetParameter(ShallowCopy(Heap, self), Copy(self), "end", v))

RequestBuilder_query(self, q) ==
    /\ CanCall(self)
    /\ builder("query", self, <<"list", <<q>> >>,
               ExtendQueries(ShallowCopy(Heap, self), Copy(self), <<q>>))

RequestBuilder_no_annotations(self, v) ==
    /\ CanCall(self)
    /\ builder("no_annotations", self, v,
               SetParameter(ShallowCopy(Heap, self), Copy(self), "no_annotations", v))

RequestBuilder_global_annotations(self, v) ==
    /\ CanCall(self)
    /\ builder("global_annotations", self, v,
               SetParameter(ShallowCopy(Heap, self), Copy(self), "global_annotations", v))

RequestBuilder_ms_resolution(self, v) ==
    /\ CanCall(self)
    /\ builder("ms_resolution", self, v,
               SetParameter(ShallowCopy(Heap, self), Copy(self), "ms_resolution", v))

RequestBuilder_show_tsuids(self, v) ==
    /\ CanCall(self)
    /\ builder("show_tsuids", self, v,
               SetParameter(ShallowCopy(Heap, self), Copy(self), "show_tsuids", v))

RequestBuilder_show_summary(self, v) ==
    /\ CanCall(self)
    /\ builder("show_summary", self, v,
               SetParameter(ShallowCopy(Heap, self), Copy(self), "show_summary", v))

RequestBuilder_show_stats(self, v) ==
    /\ CanCall(self)
    /\ builder("show_stats", self, v,
               SetParameter(ShallowCopy(Heap, self), Copy(self), "show_stats", v))

RequestBuilder_show_query(self, v) ==
    /\ CanCall(self)
    /\ builder("show_query", self, v,
               SetParameter(ShallowCopy(Heap, self), Copy(self), "show_query", v))

RequestBuilder_delete(self, v) ==
    /\ CanCall(self)
    /\ builder("delete", self, v,
               SetParameter(ShallowCopy(Heap, self), Copy(self), "delete", v))

RequestBuilder_time_zone(self, v) ==
    /\ CanCall(self)
    /\ builder("time_zone", self, v,
               SetParameter(ShallowCopy(Heap, self), Copy(self), "time_zone", v))

RequestBuilder_use_calendar(self, v) ==
    /\ CanCall(self)
    /\ builder("use_calendar", self, v,
               SetParameter(ShallowCopy(Heap, self), Copy(self), "use_calendar", v))

RequestBuilder_add_queries(self, qs) ==
    /\ CanCall(self)
    /\ builder("add_queries", self, <<"list", qs>>,
               ExtendQueries(ShallowCopy(Heap, self), Copy(self), qs))

RequestBuilder_add_metric_query(self, metric, aggregator, downsample) ==
    /\ CanCall(self)
    /\ LET q == QueryBuilder("MetricQueryBuilder", aggregator, metric, None, None,
                             downsample, None, None, None, None)
       IN  builder("add_metric_query", self, <<"list", <<q>> >>,
                   ExtendQueries(ShallowCopy(Heap, self), Copy(self), <<q>>))

RequestBuilder_add_tsuids_query(self, metric, aggregator, downsample) ==
    /\ CanCall(self)
    /\ LET q == QueryBuilder("TSUIDQueryBuilder", aggregator, metric, None, None,
                             downsample, None, None, None, None)
       IN  builder("add_tsuids_query", self, <<"list", <<q>> >>,
                   ExtendQueries(ShallowCopy(Heap, self), Copy(self), <<q>>))

\* the call record of a call that raised
RaiseRecord(op, recv, arg, exc) ==
    [op |-> op, recv |-> recv, arg |-> arg, result |-> 0, exc |-> exc]

\* RequestBuilder(client, verb): the base class constructed directly
NewRequestBuilder(client, verb) ==
    /\ LET h2 == RequestBuilder_init(Heap, client, verb, << >>)
       IN  /\ builders' = h2.builders
           /\ dicts' = h2.dicts
           /\ last' = CallRecord("RequestBuilder", 0, <<"str", client>>, Len(h2.builders))
    /\ prev' = last
    /\ pre' = Heap
    /\ UNCHANGED <<req, sqvars, clvars, trvars>>

\* Client.get: GetRequestBuilder(self), whose __init__ passes Verb.GET
Client_get(client) ==
    /\ LET h2 == RequestBuilder_init(Heap, client, "GET", << >>)
       IN  /\ builders' = h2.builders
           /\ dicts' = h2.dicts
           /\ last' = CallRecord("get", 0, <<"str", client>>, Len(h2.builders))
    /\ prev' = last
    /\ pre' = Heap
    /\ UNCHANGED <<req, sqvars, clvars, trvars>>

\* b.build_request(): the request is built from the builder, which is left
\* as it is
CallBuildRequest(self) ==
    /\ CanCall(self)
    /\ req' = Some(RequestBuilder_build_request(Heap, self))
    /\ last' = [op |-> "build_request", recv |-> self, arg |-> None, result |-> 0,
                exc |-> RequestBuilder_build_request(Heap, self).exc]
    /\ prev' = last
    /\ pre' = Heap
    /\ UNCHANGED <<builders, dicts, sqvars, clvars, trvars>>

\* Client.post: PostRequestBuilder(self), whose __init__ evaluates
\* RequestBuilder.Verb, an attribute the class does not have
Client_post(client) ==
    /\ last' = RaiseRecord("post", 0, <<"str", client>>, "AttributeError")
    /\ prev' = last
    /\ pre' = Heap
    /\ UNCHANGED <<builders, dicts, req, sqvars, clvars, trvars>>

\* Client.delete: DeleteRequestBuilder(self), likewise
Client_delete(client) ==
    /\ last' = RaiseRecord("delete", 0, <<"str", client>>, "AttributeError")
    /\ prev' = last
    /\ pre' = Heap
    /\ UNCHANGED <<builders, dicts, req, sqvars, clvars, trvars>>

\* b.parameters(): the pairs are assembled from the builder, which is left
\* as it is
CallParameters(self) ==
    /\ CanCall(self)
    /\ last' = [op |-> "parameters", recv |-> self, arg |-> None, result |-> 0,
                exc |-> RequestBuilder_parameters(Heap, self).exc]
    /\ prev' = last
    /\ pre' = Heap
    /\ UNCHANGED <<builders, dicts, req, sqvars, clvars, trvars>>

(***************************************************************************)
(* RequestBuilder.run and the transport, the Session given to the Client.  *)
(* A prepared request is the record of the verb, the url and the ordered   *)
(* parameters it was prepared from.                                        *)
(***************************************************************************)
\* requests.Request.prepare
Prepare(request) ==
    [method |-> request.verb, url |-> request.url, params |-> request.params]

\* how Session.send may end: with a response, or with the exception of a
\* transport that failed
SendOutcomes == {Returned([status_code |-> 200]), Raised("ConnectionError")}

\* Session.send(pr), ending as o: the log of the transport after it
Session_send(log, pr, o) == Append(log, [request |-> pr, outcome |-> o])

\* RequestBuilder.validate
RequestBuilder_validate(h, self) == Returned(None)

\* RequestBuilder_run gone wrong: a send that failed is tried once more
RequestBuilder_run_retry(h, log, self, o) ==
    LET request == RequestBuilder_build_request(h, self)
    IN  IF request.exc # "" THEN [sent |-> log, result |-> Raised(request.exc)]
        ELSE IF o.exc # ""
             THEN [sent |-> Session_send(Session_send(log, Prepare(request.ret), o),
                                         Prepare(request.ret), o),
                   result |-> o]
             ELSE [sent |-> Session_send(log, Prepare(request.ret), o), result |-> o]

\* RequestBuilder.run, the send ending as o: the log of the transport after
\* it, and what run returns or raises
RequestBuilder_run(h, log, self, o) ==
    LET valid == RequestBuilder_validate(h, self)
        request == RequestBuilder_build_request(h, self)
    IN  IF valid.exc # "" THEN [sent |-> log, result |-> Raised(valid.exc)]
        ELSE IF request.exc # "" THEN [sent |-> log, result |-> Raised(request.exc)]
        ELSE [sent |-> Session_send(log, Prepare(request.ret), o), result |-> o]

\* b.run()
CallRun(self, o) ==
    /\ CanCall(self)
    /\ LET r == RequestBuilder_run(Heap, sent, self, o)
       IN  /\ sent' = r.sent
           /\ ran' = Some(r.result)
           /\ last' = [op |-> "run", recv |-> self, arg |-> None, result |-> 0,
                       exc |-> r.result.exc]
    /\ prev' = last
    /\ pre' = Heap
    /\ UNCHANGED <<builders, dicts, req, sqvars, clvars>>

(***************************************************************************)
(* The Client's server metadata.  A JSON list is the sequence of its       *)
(* elements and a JSON object the sequence of its items, so [] and {} are  *)
(* both << >>, the one value "not x" is true of.                           *)
(***************************************************************************)
\* the four _server_* attributes of a Client
Entries == {"aggregators", "filters", "version", "config"}

Endpoint_AGGREGATORS == "/api/aggregators"

Endpoint_VERSION == "/api/version"

Endpoint_CONFIG == "/api/config"

Endpoint_FILTERS == "/api/config/filters"

\* the Endpoint constant an update_* method appends to the url
Endpoint(e) ==
    CASE e = "aggregators" -> Endpoint_AGGREGATORS
      [] e = "filters" -> Endpoint_FILTERS
      [] e = "version" -> Endpoint_VERSION
      [] e = "config" -> Endpoint_CONFIG

\* what requests.get(url).json() may return for an endpoint
Responses(e) ==
    IF e = "aggregators" THEN {<< >>, <<"sum", "avg">>, <<"min">>}
    ELSE {<< >>, << <<e, "2.0.0">> >>}

\* how requests.get(url).json() may end for an endpoint: with a response, or
\* with the exception of a GET that failed
Outcomes(e) == {Returned(r) : r \in Responses(e)} \cup {Raised("ConnectionError")}

\* Client.__init__: the attributes start as {} or []
Client_init == [e \in Entries |-> << >>]

\* no Client call made yet
NoClientCall ==
    [op |-> "", client |-> "", entry |-> "", gets |-> << >>, resps |-> << >>,
     ret |-> None, exc |-> ""]

\* the record of a Client call: the urls it sent a GET to, the responses it
\* received, what it returned or the exception it raised
ClientCall(op, client, e, gets, resps, ret, exc) ==
    [op |-> op, client |-> client, entry |-> e, gets |-> gets, resps |-> resps,
     ret |-> ret, exc |-> exc]

\* not self._server_<e>
Falsy(x) == Len(x) = 0

\* Stored gone wrong: a GET that fails empties the attribute
Stored_cleared(old, o) == IF o.exc = "" THEN o.ret ELSE << >>

\* self._server_<e> = requests.get(url=url).json(): the attribute after the
\* statement, which assigns only if the right-hand side did not raise
Stored(old, o) == IF o.exc = "" THEN o.ret ELSE old

\* the body of update_<e>, the GET ending as o
Update(op, client, e, o, how) ==
    /\ cache' = [cache EXCEPT ![client][e] = Stored(@, o)]
    /\ fetched' = [fetched EXCEPT ![client][e] = IF o.exc = "" THEN how ELSE @]
    /\ cpre' = [cache |-> cache, fetched |-> fetched]

\* the responses a call received from a GET that ended as o
Received(o) == IF o.exc = "" THEN <<o.ret>> ELSE << >>

\* update_<e>(): one GET, whose response is stored; its exception is the
\* call's
Client_update(client, e, o) ==
    /\ Update("update_" \o e, client, e, o, "update")
    /\ clast' = ClientCall("update_" \o e, client, e,
                           <<Client_complete_url(client) \o Endpoint(e)>>, Received(o),
                           None, o.exc)
    /\ UNCHANGED <<rbvars, sqvars, trvars>>

\* Client_access gone wrong: the GET is made only while no response was
\* ever stored
Client_access_once(client, e, o) ==
    /\ IF fetched[client][e] = "init"
       THEN /\ Update(e, client, e, o, "access")
            /\ clast' = ClientCall(e, client, e,
                                   <<Client_complete_url(client) \o Endpoint(e)>>,
                                   Received(o),
                                   IF o.exc = "" THEN Some(o.ret) ELSE None, o.exc)
       ELSE /\ clast' = ClientCall(e, client, e, << >>, << >>, Some(cache[client][e]), "")
            /\ cpre' = [cache |-> cache, fetched |-> fetched]
            /\ UNCHANGED <<cache, fetched>>
    /\ UNCHANGED <<rbvars, sqvars, trvars>>

\* the property <e>: update_<e>() if the attribute is falsy, then return it
Client_access(client, e, o) ==
    /\ IF Falsy(cache[client][e])
       THEN /\ Update(e, client, e, o, "access")
            /\ clast' = ClientCall(e, client, e,
                                   <<Client_complete_url(client) \o Endpoint(e)>>,
                                   Received(o),
                                   IF o.exc = "" THEN Some(o.ret) ELSE None, o.exc)
       ELSE /\ clast' = ClientCall(e, client, e, << >>, << >>, Some(cache[client][e]), "")
            /\ cpre' = [cache |-> cache, fetched |-> fetched]
            /\ UNCHANGED <<cache, fetched>>
    /\ UNCHANGED <<rbvars, sqvars, trvars>>

Client_update_filters(client, o) == Client_update(client, "filters", o)

Client_filters(client, o) == Client_access(client, "filters", o)

Client_update_aggregators(client, o) == Client_update(client, "aggregators", o)

Client_aggregators(client, o) == Client_access(client, "aggregators", o)

Client_update_version(client, o) == Client_update(client, "version", o)

Client_version(client, o) == Client_access(client, "version", o)

Client_update_config(client, o) == Client_update(client, "config", o)

Client_config(client, o) == Client_access(client, "config", o)

(***************************************************************************)
(* The arguments the calls are made with.                                  *)
(***************************************************************************)
ConstructorArgs == {<<"client1", "POST">>, <<"client2", "DELETE">>}

TimeValues == {<<"str", "100">>, <<"int", 1546297200>>}

BoolValues == {<<"bool", TRUE>>, <<"bool", FALSE>>}

ZoneValues == {<<"str", "UTC">>, <<"str", "CET">>}

\* MetricQueryBuilder(aggregator="avg", metric="temperature", downsample="1d-avg",
\*                    filters=[Filter("wildcard", "app", "*", True)])
Query1 ==
    QueryBuilder("MetricQueryBuilder", Some("avg"), Some("temperature"), None, None,
                 Some("1d-avg"), Some(<<Filter("wildcard", "app", "*", Some(TRUE))>>),
                 None, None, None)

Query2 ==
    QueryBuilder("MetricQueryBuilder", Some("sum"), Some("sys.cpu.user"), Some(TRUE),
                 Some(RateOptions(Some(TRUE), Some(100), Some(0), Some(TRUE))),
                 Some("1m-avg"),
                 Some(<<Filter("wildcard", "host", "*", Some(TRUE)),
                        Filter("literal_or", "dc", "lga", Some(FALSE))>>),
                 Some(TRUE), Some(<<5, 950>>), Some("ROLLUP_NOFALLBACK"))

QueryT ==
    QueryBuilder("TSUIDQueryBuilder", Some("sum"), Some("000001000002000042"), None,
                 None, None, None, None, None, None)

SubQueries == {Query1, Query2, QueryT}

SubQueryLists == {<< >>, <<Query1>>, <<Query1, Query2>>}

Init ==
    /\ builders = << >>
    /\ dicts = << >>
    /\ last = NoCall
    /\ prev = NoCall
    /\ pre = [builders |-> << >>, dicts |-> << >>]
    /\ req = None
    /\ sq = None
    /\ out = None
    /\ cache = [c \in Clients |-> Client_init]
    /\ fetched = [c \in Clients |-> [e \in Entries |-> "init"]]
    /\ clast = NoClientCall
    /\ cpre = [cache |-> [c \in Clients |-> Client_init],
               fetched |-> [c \in Clients |-> [e \in Entries |-> "init"]]]
    /\ sent = << >>
    /\ ran = None

\* the builders a call can be made on, within the model's bound
Receivers == IF Len(builders) < MaxBuilders THEN 1..Len(builders) ELSE {}

Next ==
    \/ \E c \in Clients : Len(builders) < MaxBuilders /\ Client_get(c)
    \/ \E a \in ConstructorArgs : Len(builders) < MaxBuilders /\ NewRequestBuilder(a[1], a[2])
    \/ \E b \in Receivers, v \in TimeValues : RequestBuilder_start(b, v)
    \/ \E b \in Receivers, v \in TimeValues : RequestBuilder_end(b, v)
    \/ \E b \in Receivers, q \in SubQueries : RequestBuilder_query(b, q)
    \/ \E b \in Receivers, v \in BoolValues : RequestBuilder_no_annotations(b, v)
    \/ \E b \in Receivers, v \in BoolValues : RequestBuilder_global_annotations(b, v)
    \/ \E b \in Receivers, v \in BoolValues : RequestBuilder_ms_resolution(b, v)
    \/ \E b \in Receivers, v \in BoolValues : RequestBuilder_show_tsuids(b, v)
    \/ \E b \in Receivers, v \in BoolValues : RequestBuilder_show_summary(b, v)
    \/ \E b \in Receivers, v \in BoolValues : RequestBuilder_show_stats(b, v)
    \/ \E b \in Receivers, v \in BoolValues : RequestBuilder_show_query(b, v)
    \/ \E b \in Receivers, v \in BoolValues : RequestBuilder_delete(b, v)
    \/ \E b \in Receivers, v \in ZoneValues : RequestBuilder_time_zone(b, v)
    \/ \E b \in Receivers, v \in BoolValues : RequestBuilder_use_calendar(b, v)
    \/ \E b \in Receivers, qs \in SubQueryLists : RequestBuilder_add_queries(b, qs)
    \/ \E b \in Receivers :
          RequestBuilder_add_metric_query(b, Some("temperature"), Some("avg"), None)
    \/ \E b \in Receivers :
          RequestBuilder_add_tsuids_query(b, Some("000001000002000042"), Some("sum"), None)

Spec == Init /\ [][Next]_vars

\* the three factory methods of Client alone
NextClient ==
    \/ \E c \in Clients : Len(builders) < MaxBuilders /\ Client_get(c)
    \/ \E c \in Clients : Client_post(c)
    \/ \E c \in Clients : Client_delete(c)

SpecClient == Init /\ [][NextClient]_vars

\* the longest chain client.get().m1(..).m2(..).m3(..) has this many builders
MaxChain == 4

ChainReceivers == IF Len(builders) < MaxChain THEN 1..Len(builders) ELSE {}

ChainTimes == {<<"int", 1546297200>>, <<"int", 1548975600>>}

\* chains of start, end and query calls on builders got from client.get(),
\* and build_request on any of them
NextChain ==
    \/ \E c \in {"client1"} : Len(builders) < MaxChain /\ Client_get(c)
    \/ \E b \in ChainReceivers, v \in ChainTimes : RequestBuilder_start(b, v)
    \/ \E b \in ChainReceivers, v \in ChainTimes : RequestBuilder_end(b, v)
    \/ \E b \in ChainReceivers, q \in {Query1} : RequestBuilder_query(b, q)
    \/ \E b \in 1..Len(builders) : CallBuildRequest(b)

SpecChain == Init /\ [][NextChain]_vars

\* the most builders, and the most sends, of the run specification
MaxRun == 2

MaxSends == 1

RunReceivers == IF Len(builders) < MaxRun THEN 1..Len(builders) ELSE {}

\* MetricQueryBuilder(metric="temperature")
QueryNoAggregator ==
    QueryBuilder("MetricQueryBuilder", None, Some("temperature"), None, None, None, None,
                 None, None, None)

\* MetricQueryBuilder(aggregator="avg")
QueryNoMetric ==
    QueryBuilder("MetricQueryBuilder", Some("avg"), None, None, None, None, None, None,
                 None, None)

RunQueries == {Query1, QueryT, QueryNoAggregator, QueryNoMetric}

\* builders got from client.get(), given a start and sub-queries, some of
\* them lacking a field, and assembled, built and run
NextRun ==
    \/ \E c \in {"client1"} : Len(builders) < MaxRun /\ Client_get(c)
    \/ \E b \in RunReceivers, v \in {<<"int", 1546297200>>} : RequestBuilder_start(b, v)
    \/ \E b \in RunReceivers, q \in RunQueries : RequestBuilder_query(b, q)
    \/ \E b \in 1..Len(builders) : CallParameters(b)
    \/ \E b \in 1..Len(builders) : CallBuildRequest(b)
    \/ \E b \in 1..Len(builders), o \in SendOutcomes : Len(sent) < MaxSends /\ CallRun(b, o)

SpecRun == Init /\ [][NextRun]_vars

\* the Client whose metadata methods are called
CacheClients == {"client1"}

\* the metadata methods of Client, the four update_* and the four
\* properties, with a server that answers every GET
NextCache ==
    \/ \E c \in CacheClients, r \in Responses("filters") : Client_update_filters(c, Returned(r))
    \/ \E c \in CacheClients, r \in Responses("filters") : Client_filters(c, Returned(r))
    \/ \E c \in CacheClients, r \in Responses("aggregators") : Client_update_aggregators(c, Returned(r))
    \/ \E c \in CacheClients, r \in Responses("aggregators") : Client_aggregators(c, Returned(r))
    \/ \E c \in CacheClients, r \in Responses("version") : Client_update_version(c, Returned(r))
    \/ \E c \in CacheClients, r \in Responses("version") : Client_version(c, Returned(r))
    \/ \E c \in CacheClients, r \in Responses("config") : Client_update_config(c, Returned(r))
    \/ \E c \in CacheClients, r \in Responses("config") : Client_config(c, Returned(r))

SpecCache == Init /\ [][NextCache]_vars

\* the same methods with a server whose GETs may fail
NextFetch ==
    \/ \E c \in CacheClients, o \in Outcomes("filters") : Client_update_filters(c, o)
    \/ \E c \in CacheClients, o \in Outcomes("filters") : Client_filters(c, o)
    \/ \E c \in CacheClients, o \in Outcomes("aggregators") : Client_update_aggregators(c, o)
    \/ \E c \in CacheClients, o \in Outcomes("aggregators") : Client_aggregators(c, o)
    \/ \E c \in CacheClients, o \in Outcomes("version") : Client_update_version(c, o)
    \/ \E c \in CacheClients, o \in Outcomes("version") : Client_version(c, o)
    \/ \E c \in CacheClients, o \in Outcomes("config") : Client_update_config(c, o)
    \/ \E c \in CacheClients, o \in Outcomes("config") : Client_config(c, o)

SpecFetch == Init /\ [][NextFetch]_vars

(***************************************************************************)
(* Properties of the RequestBuilder mutators, checked under Spec.          *)
(***************************************************************************)
ScalarMutators ==
    {"start", "end", "no_annotations", "global_annotations", "ms_resolution",
     "show_tsuids", "show_summary", "show_stats", "show_query", "delete",
     "time_zone", "use_calendar"}

SubQueryMutators == {"query", "add_queries", "add_metric_query", "add_tsuids_query"}

Mutators == ScalarMutators \cup SubQueryMutators

\* the parameter dict builder b held right before the last call
PreParams(b) == Params(pre, b)

\* the parameter dict builder b holds now
NowParams(b) == Params(Heap, b)

\* the sub-query list of parameter dict d
QueriesOf(d) == GetItem(d, "queries")[2]

\* the keys of parameter dict d
KeysOf(d) == {d[i][1] : i \in 1..Len(d)}

\* dicts d and e agree on key k: unset in both, or set to the same value
SameAt(d, e, k) ==
    /\ HasKey(d, k) <=> HasKey(e, k)
    /\ HasKey(d, k) => GetItem(d, k) = GetItem(e, k)

\* C1: a scalar mutator call leaves the parameter set observed through its
\* receiver exactly as it was before the call; b1.start("100") on a b1 whose
\* start was never set leaves b1 without a start parameter.
C1_ReceiverUnchanged ==
    last.op \in ScalarMutators =>
        /\ NowParams(last.recv) = PreParams(last.recv)
        /\ Assemble(NowParams(last.recv)) = Assemble(PreParams(last.recv))
        /\ ~HasKey(PreParams(last.recv), last.op) => ~HasKey(NowParams(last.recv), last.op)

\* C2: query, add_queries and add_metric_query leave the ordered sub-query
\* sequence held by their receiver unchanged.
C2_ReceiverQueriesUnchanged ==
    last.op \in {"query", "add_queries", "add_metric_query"} =>
        QueriesOf(NowParams(last.recv)) = QueriesOf(PreParams(last.recv))

\* C3: branching is safe: a mutator call on a builder is not observable
\* through any other builder that existed before the call (a sibling or the
\* builder the receiver was derived from); b2 = b1.start(x) still carries
\* start = x after b3 = b1.start(y).
C3_SiblingsUnchanged ==
    last.op \in Mutators =>
        \A o \in 1..Len(pre.builders) :
            o # last.recv =>
                /\ NowParams(o) = PreParams(o)
                /\ Assemble(NowParams(o)) = Assemble(PreParams(o))

\* the last two calls were b.m(v).m(v): the same mutator with the same
\* argument, the second on the builder the first returned
Repeated ==
    /\ last.op \in Mutators
    /\ prev.op = last.op
    /\ prev.arg = last.arg
    /\ last.recv = prev.result

\* C4 as stated: every mutator, the sub-query mutators included, is
\* idempotent: b.m(v).m(v) has the parameter set of b.m(v).
C4_IdempotentAll ==
    Repeated => NowParams(last.result) = PreParams(last.recv)

\* C4 as amended: every scalar mutator is idempotent, b.m(v).m(v) has the
\* parameter set of b.m(v); a sub-query mutator is not: its second call
\* appends the same sub-queries once more.
C4_IdempotentScalar ==
    Repeated =>
        IF last.op \in ScalarMutators
        THEN /\ NowParams(last.result) = PreParams(last.recv)
             /\ Assemble(NowParams(last.result)) = Assemble(PreParams(last.recv))
        ELSE QueriesOf(NowParams(last.result))
                = QueriesOf(PreParams(last.recv)) \o last.arg[2]

C4_Witness ==
    /\ Repeated
    /\ last.op = "start"
    /\ last.arg = <<"str", "100">>
    /\ GetItem(PreParams(last.recv), "start") = <<"str", "100">>
    /\ last.result = Len(builders)

\* C5: a mutator call returns a builder instance other than its receiver,
\* whose parameter set is the one the receiver had before the call except in
\* the field the mutator targets: that field holds the argument, or for a
\* sub-query mutator the sub-query sequence is extended at its end by the
\* added sub-queries; every other field has the same value or is still unset.
C5_OneFieldChanged ==
    last.op \in Mutators =>
        LET old == PreParams(last.recv)
            new == NowParams(last.result)
            key == IF last.op \in ScalarMutators THEN last.op ELSE "queries"
        IN  /\ last.result # last.recv
            /\ last.result \notin 1..Len(pre.builders)
            /\ \A k \in (KeysOf(old) \cup KeysOf(new)) \ {key} : SameAt(old, new, k)
            /\ Len(new) = Cardinality(KeysOf(new))
            /\ HasKey(new, key)
            /\ IF last.op \in ScalarMutators
               THEN GetItem(new, key) = last.arg
               ELSE QueriesOf(new) = QueriesOf(old) \o last.arg[2]

C5_Witness ==
    /\ last.op = "add_queries"
    /\ Len(last.arg[2]) = 2
    /\ Len(QueriesOf(PreParams(last.recv))) > 0
    /\ Len(QueriesOf(NowParams(last.result))) > 2

\* C6: the verb and the bound Client of a builder are fixed at construction:
\* a mutator call returns a builder with the verb and Client of its receiver,
\* and changes the verb and Client of no builder that existed before it.
C6_VerbFixed ==
    last.op \in Mutators =>
        /\ builders[last.result].verb = pre.builders[last.recv].verb
        /\ builders[last.result].client = pre.builders[last.recv].client
        /\ \A o \in 1..Len(pre.builders) :
              /\ builders[o].verb = pre.builders[o].verb
              /\ builders[o].client = pre.builders[o].client

C6_Witness ==
    /\ last.op \in Mutators
    /\ prev.op \in Mutators
    /\ last.recv = prev.result
    /\ builders[last.result].verb = "DELETE"
    /\ builders[last.result].client = "client2"
    /\ builders[prev.recv].verb = "DELETE"

(***************************************************************************)
(* The sub-query specification: a sub-query object is constructed from     *)
(* arguments drawn from bounded sets, then build() is called on it.        *)
(***************************************************************************)
OptBool == {None, Some(TRUE), Some(FALSE)}

FilterSet ==
    {Filter("wildcard", "app", "*", g) : g \in OptBool}
        \cup {Filter("literal_or", "dc", "lga", g) : g \in {Some(TRUE), Some(FALSE)}}

FilterLists == UNION {[1..n -> FilterSet] : n \in 0..MaxFilters}

RateOptionsSet ==
    {RateOptions(None, None, None, None),
     RateOptions(Some(FALSE), Some(100), Some(1000), Some(TRUE))}

PercentileLists == {<<5>>, <<5, 950>>}

\* q = MetricQueryBuilder(...) with aggregator or metric left out
NewMetricQueryIncomplete ==
    /\ IsNone(sq)
    /\ \E aggregator \in {None, Some("avg")}, metric \in {None, Some("temperature")},
          rate \in OptBool, downsample \in {None, Some("1d-avg")},
          filters \in {None} \cup {Some(<<f>>) : f \in FilterSet},
          explicit_tags \in OptBool :
            /\ IsNone(aggregator) \/ IsNone(metric)
            /\ sq' = Some(QueryBuilder("MetricQueryBuilder", aggregator, metric, rate,
                                       None, downsample, filters, explicit_tags,
                                       None, None))
    /\ UNCHANGED <<rbvars, out, clvars, trvars>>

\* q = MetricQueryBuilder(aggregator=..., metric=..., ...)
NewMetricQuery ==
    /\ IsNone(sq)
    /\ \E aggregator \in {Some("avg")}, metric \in {Some("temperature")},
          rate \in OptBool, rate_options \in {None} \cup {Some(r) : r \in RateOptionsSet},
          downsample \in {None, Some("1d-avg")},
          filters \in {None} \cup {Some(fs) : fs \in FilterLists},
          explicit_tags \in OptBool,
          percentiles \in {None} \cup {Some(ps) : ps \in PercentileLists} :
            sq' = Some(QueryBuilder("MetricQueryBuilder", aggregator, metric, rate,
                                    rate_options, downsample, filters, explicit_tags,
                                    percentiles, None))
    /\ UNCHANGED <<rbvars, out, clvars, trvars>>

\* q = TSUIDQueryBuilder(aggregator=..., metric=..., ...)
NewTSUIDQuery ==
    /\ IsNone(sq)
    /\ \E aggregator \in {None, Some("avg")}, metric \in {None, Some("temperature")},
          downsample \in {None, Some("1d-avg")} :
            sq' = Some(QueryBuilder("TSUIDQueryBuilder", aggregator, metric, None,
                                    None, downsample, None, None, None, None))
    /\ UNCHANGED <<rbvars, out, clvars, trvars>>

\* q.build()
CallBuild ==
    /\ ~IsNone(sq)
    /\ IsNone(out)
    /\ "cls" \in DOMAIN Val(sq)
    /\ out' = Some(Build(Val(sq)))
    /\ UNCHANGED <<rbvars, sq, clvars, trvars>>

InitQ ==
    /\ builders = << >>
    /\ dicts = << >>
    /\ last = NoCall
    /\ prev = NoCall
    /\ pre = [builders |-> << >>, dicts |-> << >>]
    /\ req = None
    /\ sq = None
    /\ out = None
    /\ cache = [c \in Clients |-> Client_init]
    /\ fetched = [c \in Clients |-> [e \in Entries |-> "init"]]
    /\ clast = NoClientCall
    /\ cpre = [cache |-> [c \in Clients |-> Client_init],
               fetched |-> [c \in Clients |-> [e \in Entries |-> "init"]]]
    /\ sent = << >>
    /\ ran = None

NextQ == NewMetricQuery \/ NewMetricQueryIncomplete \/ NewTSUIDQuery \/ CallBuild

SpecQ == InitQ /\ [][NextQ]_vars

(***************************************************************************)
(* The value-object specification: a RateOptions, a Filter or a            *)
(* MetricQueryBuilder holding a RateOptions is constructed from arguments  *)
(* drawn from bounded sets, then str() or build() is called on it.         *)
(***************************************************************************)
CounterMaxValues == {None, Some(0), Some(100)}

ResetValues == {None, Some(0), Some(1000)}

AllRateOptions ==
    {RateOptions(c, m, r, d) :
        c \in OptBool, m \in CounterMaxValues, r \in ResetValues, d \in OptBool}

\* str(x), dispatched on the class of x
Str(x) == IF "tagk" \in DOMAIN x THEN Filter_str(x) ELSE RateOptions_str(x)

\* ro = RateOptions(...)
NewRateOptions ==
    /\ IsNone(sq)
    /\ \E ro \in AllRateOptions : sq' = Some(ro)
    /\ UNCHANGED <<rbvars, out, clvars, trvars>>

\* f = Filter(...)
NewFilter ==
    /\ IsNone(sq)
    /\ \E type \in {"wildcard", "literal_or"}, tagk \in {"tagk", "app"},
          filter \in {"filter", "*"}, group_by \in OptBool :
            sq' = Some(Filter(type, tagk, filter, group_by))
    /\ UNCHANGED <<rbvars, out, clvars, trvars>>

\* q = MetricQueryBuilder(aggregator=..., metric=..., rate=..., rate_options=...)
NewRateQuery ==
    /\ IsNone(sq)
    /\ \E rate \in OptBool, rate_options \in {None} \cup {Some(ro) : ro \in AllRateOptions} :
            sq' = Some(QueryBuilder("MetricQueryBuilder", Some("avg"), Some("temperature"),
                                    rate, rate_options, None, None, None, None, None))
    /\ UNCHANGED <<rbvars, out, clvars, trvars>>

\* str(ro), str(f)
CallStr ==
    /\ ~IsNone(sq)
    /\ IsNone(out)
    /\ "cls" \notin DOMAIN Val(sq)
    /\ out' = Some(Returned(Str(Val(sq))))
    /\ UNCHANGED <<rbvars, sq, clvars, trvars>>

NextV == NewRateOptions \/ NewFilter \/ NewRateQuery \/ CallStr \/ CallBuild

SpecV == InitQ /\ [][NextV]_vars

(***************************************************************************)
(* Reading a sub-query token back: the part after its last colon is the    *)
(* explicit-tags flag, the metric name and the filter blocks (no metric    *)
(* name, tag key, filter type or pattern of the model holds a colon, a     *)
(* brace or a comma).                                                      *)
(***************************************************************************)
\* the character of s at position i
CharAt(s, i) == SubSeq(s, i, i)

\* the positions of character c in s
Positions(s, c) == {i \in 1..Len(s) : CharAt(s, i) = c}

\* the greatest element of a non-empty set of integers
Max(S) == CHOOSE x \in S : \A y \in S : y <= x

\* the least element of a non-empty set of integers
Min(S) == CHOOSE x \in S : \A y \in S : x <= y

\* the part of s after its last colon
AfterLastColon(s) ==
    LET ps == Positions(s, ":")
    IN  IF ps = {} THEN s ELSE SubSeq(s, Max(ps) + 1, Len(s))

\* s starts with p
StartsWith(s, p) == Len(p) <= Len(s) /\ SubSeq(s, 1, Len(p)) = p

RECURSIVE Split(_, _)
\* s.split(c) for a one-character separator c
Split(s, c) ==
    LET ps == Positions(s, c)
    IN  IF ps = {} THEN <<s>>
        ELSE LET i == Min(ps)
             IN  <<SubSeq(s, 1, i - 1)>> \o Split(SubSeq(s, i + 1, Len(s)), c)

RECURSIVE ReadBlocks(_)
\* the brace blocks a string of the form {a,b}{c} is made of, each the
\* sequence of its comma-separated entries; << >> for the empty string
ReadBlocks(s) ==
    IF Len(s) = 0 THEN << >>
    ELSE LET j == Min(Positions(s, "}"))
         IN  <<Split(SubSeq(s, 2, j - 1), ",")>> \o ReadBlocks(SubSeq(s, j + 1, Len(s)))

\* the brace blocks at the end of token s
BlocksOf(s) ==
    LET t == AfterLastColon(s)
        ps == Positions(t, "{")
    IN  IF ps = {} THEN << >> ELSE ReadBlocks(SubSeq(t, Min(ps), Len(t)))

(***************************************************************************)
(* Properties of MetricQueryBuilder.build, checked under SpecQ.            *)
(***************************************************************************)
\* build() was called on a metric sub-query and returned
BuiltMetric ==
    /\ ~IsNone(sq)
    /\ ~IsNone(out)
    /\ Val(sq).cls = "MetricQueryBuilder"
    /\ Val(out).exc = ""

\* the sub-query built and the token build() returned for it
TheQuery == Val(sq)

TheToken == Val(out).ret[2]

\* the serialized filters of q whose group_by is g, in the order of q.filters
FilterStrings(q, g) ==
    LET fs == SelectSeq(q.filters, LAMBDA f : f.group_by = g)
    IN  [i \in 1..Len(fs) |-> Filter_str(fs[i])]

\* the clauses of the grammar
\*   token := aggregator ":" [rate-clause] [downsample ":"] [percentile-clause]
\*            [explicit-tags] metric [group-filter-block] [nongroup-filter-block]
\* for sub-query q, in that order; an absent clause is the empty string
GrammarClauses(q) ==
    << Val(q.aggregator) \o ":",
       IF IsNone(q.rate) THEN ""
       ELSE PyStrBool(Val(q.rate))
            \o (IF IsNone(q.rate_options) THEN "" ELSE RateOptions_str(Val(q.rate_options)))
            \o ":",
       IF IsNone(q.downsample) THEN "" ELSE Val(q.downsample) \o ":",
       IF q.percentiles = << >> THEN ""
       ELSE "percentiles["
            \o Join(",", [i \in 1..Len(q.percentiles) |-> PyStrFloat(q.percentiles[i])])
            \o "]:",
       IF IsNone(q.explicit_tags) THEN "" ELSE PyStrBool(Val(q.explicit_tags)),
       Val(q.metric),
       IF FilterStrings(q, Some(TRUE)) = << >> THEN ""
       ELSE "{" \o Join(",", FilterStrings(q, Some(TRUE))) \o "}",
       IF FilterStrings(q, Some(FALSE)) = << >> THEN ""
       ELSE "{" \o Join(",", FilterStrings(q, Some(FALSE))) \o "}" >>

C8_GroupingBlockFirst ==
    (/\ BuiltMetric
     /\ FilterStrings(TheQuery, Some(TRUE)) # << >>
     /\ FilterStrings(TheQuery, Some(FALSE)) # << >>) =>
        BlocksOf(TheToken)
            = <<FilterStrings(TheQuery, Some(TRUE)), FilterStrings(TheQuery, Some(FALSE))>>

C8_Witness ==
    /\ BuiltMetric
    /\ Len(TheQuery.filters) = 3
    /\ TheQuery.filters[1].group_by = Some(FALSE)
    /\ TheQuery.filters[2].group_by = Some(TRUE)
    /\ TheQuery.filters[3].group_by = Some(FALSE)
    /\ TheQuery.filters[1].tagk # TheQuery.filters[3].tagk
    /\ Len(BlocksOf(TheToken)) = 2

RECURSIVE Flatten(_)
\* the entries of a sequence of blocks, in order
Flatten(blocks) ==
    IF Len(blocks) = 0 THEN << >> ELSE blocks[1] \o Flatten(Tail(blocks))

\* C9: every filter with group_by True is emitted once, in the grouping
\* block only; every filter with group_by False once, in the non-grouping
\* block only; a filter with group_by None is emitted in neither; a
\* sub-query whose filters all have group_by None has no brace block.
C9_FilterPartition ==
    BuiltMetric =>
        LET g == FilterStrings(TheQuery, Some(TRUE))
            n == FilterStrings(TheQuery, Some(FALSE))
            u == FilterStrings(TheQuery, None)
            blocks == BlocksOf(TheToken)
            tail == AfterLastColon(TheToken)
        IN  /\ blocks
                 = (IF g = << >> THEN << >> ELSE <<g>>) \o (IF n = << >> THEN << >> ELSE <<n>>)
            /\ Len(Flatten(blocks)) = Len(TheQuery.filters) - Len(u)
            /\ (Len(u) = Len(TheQuery.filters)) =>
                  /\ Positions(tail, "{") = {}
                  /\ Positions(tail, "}") = {}

C9_Witness ==
    /\ BuiltMetric
    /\ Len(TheQuery.filters) = 3
    /\ TheQuery.filters[1].group_by = None
    /\ TheQuery.filters[2].group_by = Some(FALSE)
    /\ TheQuery.filters[3].group_by = Some(TRUE)
    /\ Len(Flatten(BlocksOf(TheToken))) = 2

ReturnedBuilder == last.op # "" /\ last.exc = "" /\ last.result \in 1..Len(builders)

\* what parameters() gives for the builder the last call returned
Assembled == RequestBuilder_parameters(Heap, last.result)

\* the pairs of an assembled sequence that stand for sub-queries
SubQueryPairs(ps) == SelectSeq(ps, LAMBDA p : p[1] \in {"m", "tsuid"})

\* C14: parameter assembly gives one (key, value) pair per attached
\* sub-query, the key its type tag and the value its serialized body, in the
\* order the sub-queries were attached; n metric sub-queries, duplicates
\* included, give n pairs keyed "m".
C14_OnePairPerSubQuery ==
    ReturnedBuilder =>
        LET qs == QueriesOf(NowParams(last.result))
            pairs == SubQueryPairs(Assembled.ret)
        IN  /\ Assembled.exc = ""
            /\ Len(pairs) = Len(qs)
            /\ \A i \in 1..Len(qs) :
                  /\ pairs[i][1] = QueryBuilder_TYPE(qs[i])
                  /\ qs[i].cls = "MetricQueryBuilder" =>
                        pairs[i][2] = <<"str", MetricQueryBuilder_build(qs[i]).ret[2]>>

\* C15: parameter assembly omits every field left unset: a pair for a field
\* other than the sub-queries is there only if the field is set, a builder
\* with no sub-query attached has no pair at all for the sub-query field,
\* and the builder get() returns assembles to the empty sequence.
C15_UnsetOmitted ==
    (ReturnedBuilder /\ Assembled.exc = "") =>
        LET d == NowParams(last.result)
            ps == Assembled.ret
        IN  /\ \A i \in 1..Len(ps) :
                  \/ ps[i][1] \in ScalarMutators /\ HasKey(d, ps[i][1])
                  \/ ps[i][1] \in {"m", "tsuid"} /\ QueriesOf(d) # << >>
            /\ last.op = "get" => ps = << >>

\* the query parameter names of the protocol
ParameterNames ==
    {"start", "end", "m", "tsuid", "no_annotations", "global_annotations",
     "ms_resolution", "show_tsuids", "show_summary", "show_stats", "show_query",
     "delete", "time_zone", "use_calendar"}

\* the builder came from Client.get(), directly or through mutator calls:
\* the builders constructed otherwise are given another verb
FromFactory(b) == builders[b].verb = "GET"

\* C16: every key of the assembled parameters of a builder obtained from a
\* Client factory by mutator calls is one of the protocol's query parameter
\* names; "queries", the internal name of the sub-query list, is not one.
C16_KeysAreParameterNames ==
    (ReturnedBuilder /\ FromFactory(last.result) /\ Assembled.exc = "") =>
        \A i \in 1..Len(Assembled.ret) : Assembled.ret[i][1] \in ParameterNames

(***************************************************************************)
(* The order of the assembled parameters, checked under SpecChain.         *)
(***************************************************************************)
\* the keys of the pairs of an assembled sequence that stand for scalar fields
ScalarKeys(ps) ==
    LET scalars == SelectSeq(ps, LAMBDA p : p[1] \in ScalarMutators)
    IN  [i \in 1..Len(scalars) |-> scalars[i][1]]

\* in an assembled sequence, no sub-query pair comes after a scalar field
SubQueriesFirst(ps) ==
    \A i, j \in 1..Len(ps) :
        (ps[i][1] \in ScalarMutators /\ ps[j][1] \in {"m", "tsuid"}) => j < i

\* the request of the end-to-end example
ExampleRequest ==
    [verb |-> "GET",
     url |-> "http://localhost:4242/api/query",
     params |-> << <<"m", <<"str", "avg:1d-avg:temperature{app=wildcard(*)}">> >>,
                   <<"start", <<"int", 1546297200>> >>,
                   <<"end", <<"int", 1548975600>> >> >>]

\* the state of every builder: sub-query pairs first; what a mutator call
\* returns: the scalar fields of its receiver in their order, a field set
\* for the first time added last, the sub-query pairs of its receiver
\* followed by those added; what build_request returns for the builder of
\* the example: the request of the example
OrderedNow ==
    /\ \A b \in 1..Len(builders) :
          SubQueriesFirst(RequestBuilder_parameters(Heap, b).ret)
    /\ last.op \in ScalarMutators =>
          LET before == ScalarKeys(RequestBuilder_parameters(pre, last.recv).ret)
              after == ScalarKeys(Assembled.ret)
          IN  /\ after = IF \E i \in 1..Len(before) : before[i] = last.op
                         THEN before ELSE Append(before, last.op)
              /\ SubQueryPairs(Assembled.ret)
                    = SubQueryPairs(RequestBuilder_parameters(pre, last.recv).ret)
    /\ last.op = "query" =>
          /\ ScalarKeys(Assembled.ret)
                = ScalarKeys(RequestBuilder_parameters(pre, last.recv).ret)
          /\ SubQueryPairs(Assembled.ret)
                = SubQueryPairs(RequestBuilder_parameters(pre, last.recv).ret)
                    \o << <<"m", <<"str", Build(last.arg[2][1]).ret[2]>> >> >>
    /\ (/\ last.op = "build_request"
        /\ NowParams(last.recv) = << <<"queries", <<"list", <<Query1>> >> >>,
                                     <<"start", <<"int", 1546297200>> >>,
                                     <<"end", <<"int", 1548975600>> >> >>) =>
          req = Some(Returned(ExampleRequest))

\* build_request called again on the same builder returns an equal request
SameAgain ==
    (/\ last.op = "build_request"
     /\ last'.op = "build_request"
     /\ last'.recv = last.recv) => req' = req

\* C17: the assembled order is stable and deterministic: for a builder
\* obtained from client.get() the sub-query pairs come first, whenever
\* query() was called, followed by the other set fields in the order each
\* was first set; assembling the same builder twice gives the same sequence;
\* client.get().start(1546297200).end(1548975600).query(q) yields a GET to
\* /api/query with [("m", body of q), ("start", ...), ("end", ...)].
C17_StableOrder == []OrderedNow /\ [][SameAgain]_vars

C17_Witness ==
    /\ Len(builders) = 4
    /\ last.op = "build_request"
    /\ last.recv = 4
    /\ prev.op = "query"
    /\ prev.result = 4
    /\ req = Some(Returned(ExampleRequest))

(***************************************************************************)
(* Properties of RateOptions and Filter, checked under SpecV.              *)
(***************************************************************************)
\* str() was called on a RateOptions, on a Filter
StrOfRateOptions == ~IsNone(sq) /\ ~IsNone(out) /\ "counter" \in DOMAIN Val(sq)

StrOfFilter == ~IsNone(sq) /\ ~IsNone(out) /\ "tagk" \in DOMAIN Val(sq)

\* build() was called on a MetricQueryBuilder that holds a RateOptions
BuiltWithRateOptions ==
    /\ ~IsNone(sq)
    /\ ~IsNone(out)
    /\ "cls" \in DOMAIN Val(sq)
    /\ ~IsNone(Val(sq).rate_options)

\* the text of a bool field and of an int field of a RateOptions: empty
\* when the field is unset
BoolText(x) ==
    IF IsNone(x) THEN "" ELSE IF Val(x) THEN "True" ELSE "False"

IntText(x) ==
    IF IsNone(x) THEN ""
    ELSE CASE Val(x) = 0 -> "0" [] Val(x) = 100 -> "100" [] Val(x) = 1000 -> "1000"

\* C11: a RateOptions serializes to '{' a ',' b ',' c '}' with a, b, c the
\* text of counter, counter_max and reset_value when set and empty when
\* unset, so there are always exactly two commas; no field set gives
\* "{,,}", (False, 100, 1000) gives "{False,100,1000}", reset_value 1000
\* alone gives "{,,1000}"; False and 0 are set values and are written.
C11_RateOptionsPositional ==
    StrOfRateOptions =>
        LET ro == Val(sq)
            s == Val(out).ret
            fields == Split(SubSeq(s, 2, Len(s) - 1), ",")
        IN  /\ Val(out).exc = ""
            /\ SubSeq(s, 1, 1) = "{"
            /\ SubSeq(s, Len(s), Len(s)) = "}"
            /\ Cardinality(Positions(s, ",")) = 2
            /\ fields = <<BoolText(ro.counter), IntText(ro.counter_max),
                          IntText(ro.reset_value)>>
            /\ (IsNone(ro.counter) /\ IsNone(ro.counter_max) /\ IsNone(ro.reset_value))
                  => s = "{,,}"
            /\ (ro.counter = Some(FALSE) /\ ro.counter_max = Some(100)
                    /\ ro.reset_value = Some(1000)) => s = "{False,100,1000}"
            /\ (IsNone(ro.counter) /\ IsNone(ro.counter_max) /\ ro.reset_value = Some(1000))
                  => s = "{,,1000}"
            /\ (ro.counter = Some(FALSE) /\ ro.counter_max = Some(0)
                    /\ ro.reset_value = Some(0)) => s = "{False,0,0}"

C11_Witness ==
    /\ StrOfRateOptions
    /\ Val(sq) = RateOptions(Some(FALSE), Some(0), None, Some(TRUE))
    /\ Val(out).ret = "{False,0,}"

\* C12: drop_resets influences no output: a RateOptions serializes to the
\* same string whatever its drop_resets, and a MetricQueryBuilder builds the
\* same token whatever the drop_resets of its rate_options.
C12_DropResetsIgnored ==
    /\ StrOfRateOptions =>
          \A d \in OptBool :
              Returned(RateOptions_str([Val(sq) EXCEPT !.drop_resets = d])) = Val(out)
    /\ BuiltWithRateOptions =>
          \A d \in OptBool :
              Build([Val(sq) EXCEPT !.rate_options = Some([Val(@) EXCEPT !.drop_resets = d])])
                  = Val(out)

C12_Witness ==
    /\ BuiltWithRateOptions
    /\ Val(sq).rate = Some(TRUE)
    /\ Val(Val(sq).rate_options).drop_resets = Some(TRUE)
    /\ Val(out).ret = <<"m", "avg:True{True,100,1000}:temperature">>

\* C13: a Filter serializes to tag_key '=' kind '(' pattern ')', the same
\* string for group_by True, False and None; group_by decides only the
\* block of the sub-query token the string is placed in.
C13_FilterToken ==
    StrOfFilter =>
        LET f == Val(sq)
            s == Val(out).ret
            q == QueryBuilder("MetricQueryBuilder", Some("avg"), Some("temperature"),
                              None, None, None, Some(<<f>>), None, None, None)
        IN  /\ s = f.tagk \o "=" \o f.type \o "(" \o f.filter \o ")"
            /\ \A g \in OptBool : Filter_str([f EXCEPT !.group_by = g]) = s
            /\ (f.type = "wildcard" /\ f.tagk = "tagk" /\ f.filter = "filter")
                  => s = "tagk=wildcard(filter)"
            /\ Build(q).ret[2]
                  = "avg:temperature" \o (IF IsNone(f.group_by) THEN "" ELSE "{" \o s \o "}")

C13_Witness ==
    /\ StrOfFilter
    /\ Val(sq) = Filter("wildcard", "tagk", "filter", Some(FALSE))
    /\ Val(out).ret = "tagk=wildcard(filter)"

(***************************************************************************)
(* Properties of the Client metadata methods, checked under SpecCache, and *)
(* of its factory methods, checked under SpecClient.                       *)
(***************************************************************************)
\* the names of the four update_* methods
Updates == {"update_" \o e : e \in Entries}

\* C18: for each metadata property and every response, an empty list or
\* mapping included: the first access makes exactly one GET, stores the
\* response as it is and returns it; a later access, with no update_* call
\* since, makes no GET and returns the stored value.
C18_FetchedOnce ==
    clast.op \in Entries =>
        LET c == clast.client
            e == clast.entry
        IN  /\ cpre.fetched[c][e] = "init" =>
                  /\ Len(clast.gets) = 1
                  /\ cache[c][e] = clast.resps[1]
                  /\ clast.ret = Some(clast.resps[1])
            /\ cpre.fetched[c][e] = "access" =>
                  /\ clast.gets = << >>
                  /\ cache[c][e] = cpre.cache[c][e]
                  /\ clast.ret = Some(cpre.cache[c][e])

\* C19: an update_* call makes exactly one GET whether or not its attribute
\* is populated, stores the response in its attribute and leaves the other
\* three attributes as they were; the property read next returns the value
\* the update stored.
C19_UpdateOverwrites ==
    LET c == clast.client
        e == clast.entry
    IN  /\ clast.op \in Updates =>
              /\ Len(clast.gets) = 1
              /\ clast.gets[1] = Client_complete_url(c) \o Endpoint(e)
              /\ cache[c][e] = clast.resps[1]
              /\ \A o \in Entries \ {e} : cache[c][o] = cpre.cache[c][o]
        /\ (clast.op \in Entries /\ cpre.fetched[c][e] = "update") =>
              clast.ret = Some(cpre.cache[c][e])

\* C20: each factory method returns a builder of the matching verb bound to
\* the calling Client, with no parameter set and no sub-query attached:
\* get() one with verb GET, post() one with verb POST, delete() one with
\* verb DELETE; none of the three calls fails.
C20_FactoriesReturnBuilders ==
    last.op \in {"get", "post", "delete"} =>
        /\ last.exc = ""
        /\ last.result \in 1..Len(builders)
        /\ last.result \notin 1..Len(pre.builders)
        /\ builders[last.result].verb
              = (CASE last.op = "get" -> "GET" [] last.op = "post" -> "POST"
                   [] last.op = "delete" -> "DELETE")
        /\ <<"str", builders[last.result].client>> = last.arg
        /\ KeysOf(NowParams(last.result)) \subseteq {"queries"}
        /\ QueriesOf(NowParams(last.result)) = << >>

(***************************************************************************)
(* Properties of sub-query construction, checked under SpecQ.              *)
(***************************************************************************)
\* a sub-query object exists
SubQueryCreated == ~IsNone(sq) /\ "cls" \in DOMAIN Val(sq)

\* C22: no sub-query object, metric or TSUID, exists whose aggregator or
\* whose metric / tsuid list is absent (its construction fails with
\* InvalidSubQuery), so build() never returns a token that begins "None:".
C22_InvalidSubQueryRejected ==
    /\ SubQueryCreated =>
          /\ ~IsNone(Val(sq).aggregator)
          /\ ~IsNone(Val(sq).metric)
    /\ BuiltMetric => ~StartsWith(TheToken, "None:")

\* the colon-terminated clauses of token s, the aggregator's first
ColonClauses(s) == LET parts == Split(s, ":") IN SubSeq(parts, 1, Len(parts) - 1)

\* the rate_options arguments a MetricQueryBuilder is constructed with
RateOptionsArgs == {None} \cup {Some(ro) : ro \in RateOptionsSet}

\* C27: with rate unset, the token has no rate clause and is the token of
\* every sub-query that differs in rate_options only; with rate set, False
\* included, the clause after the aggregator's is the text of rate followed
\* by the rate options, when there are any.
C27_RateOptionsOnlyWithRate ==
    BuiltMetric =>
        LET cs == ColonClauses(TheToken)
        IN  /\ IsNone(TheQuery.rate) =>
                  /\ \A i \in 2..Len(cs) :
                        ~StartsWith(cs[i], "True") /\ ~StartsWith(cs[i], "False")
                  /\ \A ro \in RateOptionsArgs :
                        Build([TheQuery EXCEPT !.rate_options = ro]) = Val(out)
            /\ ~IsNone(TheQuery.rate) =>
                  /\ Len(cs) >= 2
                  /\ cs[2] = PyStrBool(Val(TheQuery.rate))
                                \o (IF IsNone(TheQuery.rate_options) THEN ""
                                    ELSE RateOptions_str(Val(TheQuery.rate_options)))

\* build() returned the token of a sub-query that has rate options but no
\* rate
C27_Witness ==
    /\ BuiltMetric
    /\ IsNone(TheQuery.rate)
    /\ ~IsNone(TheQuery.rate_options)
    /\ TheToken = "avg:temperature"

(***************************************************************************)
(* Properties of TSUID sub-queries, checked under Spec.                    *)
(***************************************************************************)
\* the TSUID sub-queries among qs
TSUIDQueries(qs) == SelectSeq(qs, LAMBDA q : q.cls = "TSUIDQueryBuilder")

\* C24: for a builder holding a TSUID sub-query, attached by
\* add_tsuids_query or by query, parameter assembly succeeds, gives as many
\* pairs keyed "tsuid" as TSUID sub-queries are attached, and the keys of
\* the sub-query pairs follow the order of attachment.
C24_TSUIDAssembled ==
    (ReturnedBuilder /\ TSUIDQueries(QueriesOf(NowParams(last.result))) # << >>) =>
        LET qs == QueriesOf(NowParams(last.result))
            pairs == SubQueryPairs(Assembled.ret)
        IN  /\ Assembled.exc = ""
            /\ Len(SelectSeq(pairs, LAMBDA p : p[1] = "tsuid")) = Len(TSUIDQueries(qs))
            /\ [i \in 1..Len(pairs) |-> pairs[i][1]]
                  = [i \in 1..Len(qs) |-> QueryBuilder_TYPE(qs[i])]

(***************************************************************************)
(* Properties of the metadata properties on empty responses, checked under *)
(* SpecCache, and on failing GETs, checked under SpecFetch.                *)
(***************************************************************************)
\* the url of the GET the Client call made last is for
FetchUrl == Client_complete_url(clast.client) \o Endpoint(clast.entry)

\* C26: an access that finds its attribute empty makes one GET, whatever
\* calls came before it, and an access whose GET is answered with an empty
\* list or mapping leaves the attribute empty; so, while the server answers
\* empty, each of n accesses makes a GET.
C26_EmptyRefetched ==
    clast.op \in Entries =>
        LET c == clast.client
            e == clast.entry
        IN  /\ cpre.cache[c][e] = << >> => clast.gets = <<FetchUrl>>
            /\ clast.resps = << << >> >> =>
                  /\ cache[c][e] = << >>
                  /\ clast.ret = Some(<< >>)

\* an access made after an earlier access had stored an empty response made
\* a GET again, and was answered empty again
C26_Witness ==
    /\ clast.op = "aggregators"
    /\ cpre.fetched[clast.client]["aggregators"] = "access"
    /\ cpre.cache[clast.client]["aggregators"] = << >>
    /\ clast.gets = <<FetchUrl>>
    /\ clast.resps = << << >> >>

\* C28: a call whose GET raised made that one GET and left all four
\* attributes as they were, the unpopulated unpopulated and the fetched
\* fetched, and raised the GET's exception; an access to an unpopulated
\* attribute makes a GET, after a failure as at first.
C28_FailedFetchKeepsCache ==
    /\ clast.exc # "" =>
          /\ clast.gets = <<FetchUrl>>
          /\ clast.exc = "ConnectionError"
          /\ cache = cpre.cache
          /\ fetched = cpre.fetched
    /\ (clast.op \in Entries /\ cpre.cache[clast.client][clast.entry] = << >>) =>
          clast.gets = <<FetchUrl>>

\* update_version() raised on a Client that held a fetched version, which
\* is still in place
C28_Witness ==
    /\ clast.op = "update_version"
    /\ clast.exc = "ConnectionError"
    /\ cpre.cache["client1"]["version"] = << <<"version", "2.0.0">> >>
    /\ cache["client1"]["version"] = << <<"version", "2.0.0">> >>

(***************************************************************************)
(* Properties of RequestBuilder.run, checked under SpecRun.  Each is about *)
(* one call: the step from the state before it to the state after it.     *)
(***************************************************************************)
\* the step is a call of run()
RunCalled == last'.op = "run"

\* the entries the step adds to the log of the transport
NewSends == SubSeq(sent', Len(sent) + 1, Len(sent'))

\* the sub-queries the builder run() is called on holds
RunQueriesHeld == QueriesOf(NowParams(last'.recv))

\* C21: a call other than run() invokes no send; a call of run() invokes
\* send once, with the builder's verb, the url complete_url + /api/query and
\* the pairs parameter assembly gives, in their order, returns the response
\* the transport gave, and leaves every builder's parameters as they were.
C21_OnlyRunSends ==
    [][/\ ~RunCalled => sent' = sent
       /\ RunCalled =>
             LET b == last'.recv
             IN  /\ Len(NewSends) = 1
                 /\ NewSends[1].request
                       = [method |-> builders[b].verb,
                          url |-> Client_complete_url(builders[b].client) \o "/api/query",
                          params |-> RequestBuilder_parameters(Heap, b).ret]
                 /\ NewSends[1].outcome.exc = "" => ran' = Some(NewSends[1].outcome)
                 /\ builders' = builders
                 /\ dicts' = dicts]_vars

\* C23: run() on a builder that holds a sub-query whose aggregator or
\* metric is absent raises, and invokes no send.
C23_MalformedFailsBeforeSend ==
    [][(RunCalled /\ \E i \in 1..Len(RunQueriesHeld) :
                        IsNone(RunQueriesHeld[i].aggregator) \/ IsNone(RunQueriesHeld[i].metric))
          => /\ last'.exc # ""
             /\ sent' = sent]_vars

\* C25: when a send invoked by run() fails, it is the only send of that
\* call, run() raises the exception send raised, and every builder's
\* parameters are as they were before the call.
C25_NoRetry ==
    [][(RunCalled /\ \E i \in 1..Len(NewSends) : NewSends[i].outcome.exc # "")
          => /\ Len(NewSends) = 1
             /\ ran' = Some(Raised(NewSends[1].outcome.exc))
             /\ last'.exc = NewSends[1].outcome.exc
             /\ builders' = builders
             /\ dicts' = dicts]_vars

\* run() was called on a builder holding a sub-query, its one send failed
\* and run() raised
C25_Witness ==
    /\ last.op = "run"
    /\ last.exc = "ConnectionError"
    /\ Len(sent) = 1
    /\ sent[1].outcome = Raised("ConnectionError")
    /\ sent[1].request.params = << <<"m", <<"str", "avg:1d-avg:temperature{app=wildcard(*)}">> >> >>
    /\ ran = Some(Raised("ConnectionError"))

====
